---- MODULE Spec2Model ----
(***************************************************************************)
(* Model of two state machines of surmon.me.native:                        *)
(*   - BetterModal (src/components/common/modal.tsx): the mounted flag     *)
(*     modalVisible and the Animated.Value maskOpacity, driven by the      *)
(*     reaction on props.visible, the Modal's onShow event and the frames  *)
(*     of Animated.timing;                                                 *)
(*   - Store (src/components/archive/filter.tsx): the filter selection.    *)
(* Opacities are counted in quarters: 2 stands for 0.5, 4 for 1.0.         *)
(***************************************************************************)
EXTENDS Integers, Sequences, FiniteSets, TLC

VARIABLES props, modal, toggles, scen, store, fetching, lastOp, lastSet

modalVars == <<props, modal, toggles, scen>>
storeVars == <<store, fetching, lastOp, lastSet>>
vars == <<props, modal, toggles, scen, store, fetching, lastOp, lastSet>>

\* ---------------------------------------------------------------- bounds
\* number of changes of props.visible in one behaviour
MaxToggles == 4
\* largest value of props.opacity, in quarters; 0 stands for "not given"
MaxOpacityProp == 3
\* number of distinct tags / categories / search strings
MaxItems == 2

\* ------------------------------------------------------------ BetterModal
\* props.opacity || 0.5
DefaultOpacity == 2

propOpacity(p) == IF p.opacity = 0 THEN DefaultOpacity ELSE p.opacity

\* @action updateVisible
updateVisible(m, visible) == [m EXCEPT !.modalVisible = visible]

\* the callback handed to start() by handleVisibleChange(false)
fadeOutCallback(m) == updateVisible(m, FALSE)

\* Animated: starting an animation on a value stops the one in flight, whose
\* start() callback is then invoked (with finished: false, which the
\* callback of handleVisibleChange does not look at).
stopAnimation(m) ==
  LET stopped == [m EXCEPT !.animating = FALSE, !.callback = FALSE]
  IN  IF m.animating /\ m.callback THEN fadeOutCallback(stopped) ELSE stopped

updateMaskVisible(m, p, visible, callback) ==
  [stopAnimation(m) EXCEPT !.animating = TRUE,
                           !.toValue = IF visible THEN propOpacity(p) ELSE 0,
                           !.callback = callback]

handleVisibleChange(m, p, visible) ==
  IF visible
    THEN updateVisible(m, TRUE)
    ELSE updateMaskVisible(m, p, FALSE, TRUE)

\* render: <Modal visible={this.modalVisible} onShow=...>.  The native modal
\* is presented when modalVisible turns true and torn down, with any onShow
\* not yet delivered, when it turns false.
render(m) ==
  [m EXCEPT !.native = IF ~m.modalVisible THEN "hidden"
                       ELSE IF m.native = "hidden" THEN "showing"
                       ELSE m.native]

\* the fields of a fresh component, before the constructor's reaction fires
NewModal ==
  [modalVisible |-> FALSE, maskOpacity |-> 0, animating |-> FALSE,
   toValue |-> 0, callback |-> FALSE, native |-> "hidden"]

\* ghost: the scenario "visible turned true in the closed state and then
\* false before the fade-in reached its target"
IsClosed(m) == ~m.modalVisible /\ m.maskOpacity = 0 /\ ~m.animating

ScenAfterToggle(m, p, v) ==
  IF v THEN (IF IsClosed(m) THEN "opening" ELSE "none")
  ELSE IF scen = "opening" /\ m.maskOpacity < propOpacity(p) THEN "cut"
  ELSE "none"

ScenAfterStep(m, p) ==
  IF scen = "opening" /\ m.maskOpacity >= propOpacity(p) THEN "none" ELSE scen

\* constructor: reaction(() => props.visible, handleVisibleChange,
\* { fireImmediately: true }), followed by the first render
InitModal ==
  /\ props \in [visible : BOOLEAN, opacity : 0..MaxOpacityProp]
  /\ modal = render(handleVisibleChange(NewModal, props, props.visible))
  /\ toggles = 0
  /\ scen = IF props.visible THEN "opening" ELSE "none"

\* the owner changes props.visible; the reaction fires on a change only
SetVisible(v) ==
  /\ v # props.visible
  /\ toggles < MaxToggles
  /\ props' = [props EXCEPT !.visible = v]
  /\ modal' = render(handleVisibleChange(modal, props, v))
  /\ toggles' = toggles + 1
  /\ scen' = ScenAfterToggle(modal, props, v)
  /\ UNCHANGED storeVars

\* Modal onShow={() => this.updateMaskVisible(true)}
OnShow ==
  /\ modal.native = "showing"
  /\ modal' = render([updateMaskVisible(modal, props, TRUE, FALSE)
                        EXCEPT !.native = "shown"])
  /\ scen' = scen
  /\ UNCHANGED <<props, toggles>>
  /\ UNCHANGED storeVars

\* one frame of Animated.timing: the value moves toward toValue; the frame
\* that reaches toValue ends the animation and invokes the start() callback
Toward(x, target) ==
  IF x < target THEN x + 1 ELSE IF x > target THEN x - 1 ELSE x

AnimationFrame ==
  /\ modal.animating
  /\ LET x == Toward(modal.maskOpacity, modal.toValue)
         moved == [modal EXCEPT !.maskOpacity = x]
         ended == [moved EXCEPT !.animating = FALSE, !.callback = FALSE]
     IN  /\ modal' = IF x # modal.toValue THEN moved
                     ELSE IF modal.callback THEN render(fadeOutCallback(ended))
                     ELSE ended
         /\ scen' = ScenAfterStep(moved, props)
  /\ UNCHANGED <<props, toggles>>
  /\ UNCHANGED storeVars

\* ------------------------------------------------------------------ Store
EFilterType == {"Tag", "Category", "Search"}
Null == <<"null", 0>>
ItemsOf(type) == {<<type, i>> : i \in 1..MaxItems}
Values == UNION {ItemsOf(t) : t \in EFilterType}
KindOf(value) == value[1]

\* what GET /tag and GET /category may answer: a list of distinct items
RECURSIVE Prefix(_, _)
Prefix(type, n) == IF n = 0 THEN <<>> ELSE Append(Prefix(type, n - 1), <<type, n>>)
Lists(type) == {Prefix(type, n) : n \in 0..MaxItems}
Range(seq) == {seq[i] : i \in 1..Len(seq)}

NewStore ==
  [filterActive |-> FALSE,
   filterType |-> "Category",
   filterValues |-> [t \in EFilterType |-> Null],
   tags |-> <<>>,
   categories |-> <<>>,
   modalVisible |-> FALSE]

\* @computed get filterValue
filterValue_wrongSlot(s) ==
  IF s.filterType = "Search" THEN s.filterValues["Search"]
  ELSE IF s.filterType = "Tag" THEN s.filterValues["Category"]
  ELSE IF s.filterType = "Category" THEN s.filterValues["Category"]
  ELSE Null

filterValue(s) ==
  IF s.filterType = "Search" THEN s.filterValues["Search"]
  ELSE IF s.filterType = "Tag" THEN s.filterValues["Tag"]
  ELSE IF s.filterType = "Category" THEN s.filterValues["Category"]
  ELSE Null

\* @action.bound updateActiveFilter
updateActiveFilter_merge(s, type, value) ==
  [s EXCEPT !.filterType = type,
            !.filterValues = [t \in EFilterType |-> IF t = type THEN value ELSE Null],
            !.filterActive = TRUE]

updateActiveFilter_staleKey(s, type, value) ==
  [s EXCEPT !.filterType = type,
            !.filterValues[s.filterType] = value,
            !.filterActive = TRUE]

updateActiveFilter(s, type, value) ==
  [s EXCEPT !.filterType = type,
            !.filterValues[type] = value,
            !.filterActive = TRUE]

\* @action.bound clearActiveFilter
clearActiveFilter_hard(s) ==
  [s EXCEPT !.filterActive = FALSE,
            !.filterValues[s.filterType] = Null]

clearActiveFilter(s) == [s EXCEPT !.filterActive = FALSE]

\* @action.bound updateVisibleState
updateVisibleState(s, visible) == [s EXCEPT !.modalVisible = visible]

\* constructor: both fetches are started, neither has answered
InitStore ==
  /\ store = NewStore
  /\ fetching = [tags |-> TRUE, categories |-> TRUE]
  /\ lastOp = [op |-> "new", type |-> "Category", value |-> Null]
  /\ lastSet = Null

\* a caller sets a selection with a value of the dimension's kind
UpdateActiveFilter(type, value) ==
  /\ store' = updateActiveFilter(store, type, value)
  /\ lastOp' = [op |-> "update", type |-> type, value |-> value]
  /\ lastSet' = value
  /\ UNCHANGED fetching
  /\ UNCHANGED modalVars

\* ArchiveFilter: onPress of a listed tag or category
ItemOnPress(type, item) ==
  /\ item \in Range(IF type = "Tag" THEN store.tags ELSE store.categories)
  /\ store' = updateVisibleState(updateActiveFilter(store, type, item), FALSE)
  /\ lastOp' = [op |-> "press", type |-> type, value |-> item]
  /\ lastSet' = item
  /\ UNCHANGED fetching
  /\ UNCHANGED modalVars

ClearActiveFilter ==
  /\ store' = clearActiveFilter(store)
  /\ lastOp' = [op |-> "clear", type |-> "Category", value |-> Null]
  /\ UNCHANGED <<fetching, lastSet>>
  /\ UNCHANGED modalVars

\* ArchiveFilter: onPress of the "extra" button of the modal
ClearOnPress ==
  /\ store' = updateVisibleState(clearActiveFilter(store), FALSE)
  /\ lastOp' = [op |-> "clear", type |-> "Category", value |-> Null]
  /\ UNCHANGED <<fetching, lastSet>>
  /\ UNCHANGED modalVars

UpdateVisibleState(visible) ==
  /\ store' = updateVisibleState(store, visible)
  /\ lastOp' = [op |-> "visible", type |-> "Category", value |-> Null]
  /\ UNCHANGED <<fetching, lastSet>>
  /\ UNCHANGED modalVars

\* fetchTags().then(...)
FetchTagsDone(data) ==
  /\ fetching.tags
  /\ store' = [store EXCEPT !.tags = data]
  /\ fetching' = [fetching EXCEPT !.tags = FALSE]
  /\ lastOp' = [op |-> "tags", type |-> "Category", value |-> Null]
  /\ UNCHANGED lastSet
  /\ UNCHANGED modalVars

\* fetchCategories().then(...)
FetchCategoriesDone(data) ==
  /\ fetching.categories
  /\ store' = [store EXCEPT !.categories = data]
  /\ fetching' = [fetching EXCEPT !.categories = FALSE]
  /\ lastOp' = [op |-> "categories", type |-> "Category", value |-> Null]
  /\ UNCHANGED lastSet
  /\ UNCHANGED modalVars

\* --------------------------------------------------------- specifications
\* the filter screen's modal before it is ever opened: visible = false, no
\* opacity prop
InitModalAtRest ==
  /\ InitModal
  /\ props = [visible |-> FALSE, opacity |-> 0]

NextModal ==
  \/ \E v \in BOOLEAN : SetVisible(v)
  \/ OnShow
  \/ AnimationFrame

NextStore ==
  \/ \E type \in EFilterType : \E value \in ItemsOf(type) : UpdateActiveFilter(type, value)
  \/ \E type \in {"Tag", "Category"} : \E item \in ItemsOf(type) : ItemOnPress(type, item)
  \/ ClearActiveFilter
  \/ ClearOnPress
  \/ \E visible \in BOOLEAN : UpdateVisibleState(visible)
  \/ \E data \in Lists("Tag") : FetchTagsDone(data)
  \/ \E data \in Lists("Category") : FetchCategoriesDone(data)

Init == InitModal /\ InitStore
InitAtRest == InitModalAtRest /\ InitStore

SpecModal == Init /\ [][NextModal]_vars
SpecStore == InitAtRest /\ [][NextStore]_vars

\* ============================================================ BetterModal
Quiescent(m) == ~m.animating /\ m.native # "showing"

\* C1: a fade-out completion callback that fires after a newer visible=true
\* request does not set modalVisible to false: while the latest request is
\* true, no step takes modalVisible from true to false.
C1_StaleCallbackIgnored ==
  [][(props.visible /\ props'.visible /\ modal.modalVisible) => modal'.modalVisible]_vars

\* C2: in every reachable state, modalVisible = false implies that the mask
\* opacity is 0.
C2_UnmountedImpliesOpacityZero ==
  ~modal.modalVisible => modal.maskOpacity = 0

\* C3: once no animation is in flight and no onShow is pending, modalVisible
\* is true exactly if the most recently received visible is true.
C3_MountedIffRequested ==
  Quiescent(modal) => (modal.modalVisible <=> props.visible)

\* C4: when visible turns true in the closed state and false again before
\* the fade-in has reached its target, the opacity never reaches the target
\* and the quiescent state that follows is Closed.
C4_CutOpeningClosesWithoutFlash ==
  scen = "cut" =>
    /\ modal.maskOpacity < propOpacity(props)
    /\ (Quiescent(modal) => IsClosed(modal))

\* C5: visible turning true while a fade-out is in flight (opacity above 0)
\* cancels it and starts an animation toward propOpacity.
C5_ReopenRedirectsFadeOut ==
  [][(~props.visible /\ props'.visible /\ modal.animating /\ modal.maskOpacity > 0)
       => (modal'.animating /\ modal'.toValue = propOpacity(props))]_vars

\* C6: a fade-in starts only in a state where modalVisible is true, and
\* modalVisible turns from true to false only in the step in which a fade-out
\* runs to completion (reaches 0 and ends, not interrupted).
C6_MountBeforeFadeInUnmountAfterFadeOut ==
  [][/\ (modal.native = "showing" /\ modal'.native # modal.native /\ modal'.animating
           /\ modal'.toValue = propOpacity(props))
          => modal.modalVisible
     /\ (modal.modalVisible /\ ~modal'.modalVisible)
          => (modal.animating /\ modal.callback /\ modal.toValue = 0
              /\ ~modal'.animating /\ modal'.maskOpacity = 0)]_vars

\* ================================================================== Store
\* C7 as claimed: whenever no filter is active, filterValue is absent.
C7_AbsentWhenInactive ==
  ~store.filterActive => filterValue(store) = Null

\* C7 amended: filterValue is the stored value of filterType whether or not
\* a filter is active, i.e. the value of the most recent updateActiveFilter;
\* it is absent exactly as long as no updateActiveFilter has been called.
C7_FilterValueIsLastSet ==
  /\ filterValue(store) = store.filterValues[store.filterType]
  /\ filterValue(store) = lastSet
  /\ (store.filterActive => filterValue(store) # Null)

C7_Witness ==
  /\ lastOp.op = "clear"
  /\ ~store.filterActive
  /\ filterValue(store) = <<"Tag", 1>>

\* C8: clearActiveFilter sets filterActive to false and leaves filterType and
\* every entry of filterValues unchanged; a second clear changes nothing.
C8_ClearKeepsTypeAndValues ==
  [][lastOp'.op = "clear" =>
       /\ ~store'.filterActive
       /\ store'.filterType = store.filterType
       /\ store'.filterValues = store.filterValues
       /\ clearActiveFilter(store') = store'
       /\ (lastOp.op = "clear" => store'.filterActive = store.filterActive)]_vars

C8_Witness ==
  /\ lastOp.op = "clear"
  /\ ~store.filterActive
  /\ store.filterType = "Tag"
  /\ \A t \in EFilterType : store.filterValues[t] # Null

\* C9: after updateActiveFilter(d, v), filterActive is true, filterType is d,
\* filterValue returns v, the values of the two other dimensions are what
\* they were before the call, and tags and categories are untouched.
C9_UpdateReplacesSelection ==
  [][lastOp'.op \in {"update", "press"} =>
       LET d == lastOp'.type
           v == lastOp'.value
       IN  /\ store'.filterActive
           /\ store'.filterType = d
           /\ filterValue(store') = v
           /\ \A t \in EFilterType \ {d} : store'.filterValues[t] = store.filterValues[t]
           /\ store'.tags = store.tags
           /\ store'.categories = store.categories]_vars

C9_Witness ==
  /\ lastOp = [op |-> "update", type |-> "Tag", value |-> <<"Tag", 1>>]
  /\ store.filterValues["Category"] = <<"Category", 1>>
  /\ filterValue(store) = <<"Tag", 1>>
  /\ store.tags # <<>>

\* C10: in every reachable state, filterActive implies that
\* filterValues[filterType] is non-null and of the kind of filterType.
C10_ActiveValuePresentAndTyped ==
  store.filterActive =>
    /\ store.filterValues[store.filterType] # Null
    /\ KindOf(store.filterValues[store.filterType]) = store.filterType

C10_Witness ==
  /\ store.filterActive
  /\ store.filterType = "Search"
  /\ store.filterValues["Tag"] # Null
  /\ store.filterValues["Category"] # Null
  /\ ~store.modalVisible

====
